---- MODULE Spec2Model ----
(***************************************************************************)
(* cargo-docserve: the watch / debounce / rebuild coordinator of           *)
(* src/src/cargo_doc.rs and the process of src/src/main.rs (startup        *)
(* rebuild, inline watcher thread, HTTP front end).                        *)
(*                                                                         *)
(* main.rs declares no `mod cargo_doc`, and cargo_doc.rs names a           *)
(* crate::Config that main.rs does not define: the repository holds two    *)
(* watch drivers, the inline thread of main.rs:86-130 and                  *)
(* cargo_doc::watch.  A process runs one of them (or none, --do-not-watch),*)
(* chosen in Init by `driver`.                                             *)
(***************************************************************************)
EXTENDS Integers, Sequences, FiniteSets, TLC

\* ------------------------------------------------------------- bounds
MaxEvents == 2      \* items (events and errors) the watcher backend delivers
MaxNameLen == 3     \* characters of a package name (SpecRoute)
MaxClosedRecvs == 2 \* turns the loop of main.rs takes on a closed channel

\* ------------------------------------------------------------- paths
\* A path is the sequence of its components.
workspace_root == <<"ws">>
target_directory == <<"ws", "target">>
watch_extra == {<<"extra">>}

Roots == {workspace_root} \cup watch_extra

\* The files the environment changes: a source file, a file of the build
\* output, a file under the extra watched path.
Paths == {<<"ws", "src">>, <<"ws", "target", "doc">>, <<"extra", "f">>}

\* Path::starts_with: component-wise prefix.
StartsWith(p, q) ==
    /\ Len(q) <= Len(p)
    /\ \A i \in 1..Len(q) : p[i] = q[i]

Kinds == {"Create", "Write", "Remove", "Rename"}

\* ------------------------------------------------------------- state
VARIABLES
    driver,         \* "none" | "inline" | "coordinator"
    packages,       \* metadata.packages: sequence of package names
    root,           \* position of the root package cargo designates (resolve.root), 0 when none
    missing,        \* the configured paths that cannot be watched
    mainPc,         \* position of main()
    index,          \* the redirect target computed at startup
    inFlight,       \* `cargo doc` commands running now
    started,        \* `cargo doc` commands started so far
    docs,           \* version of the tree under target/doc: successful `cargo doc` runs
    log,            \* error lines logged, per origin
    watched,        \* roots the watcher monitors recursively
    unwatched,      \* subtrees removed from monitoring
    emitted,        \* filesystem events delivered so far
    errors,         \* watcher error items delivered so far
    \* cargo_doc::watch
    wState,         \* "init" | "armed" | "failed"
    rx,             \* channel of NotifyMsg (tx -> rx)
    run_rx,         \* channel of CargoMsg (run_tx -> run_rx)
    notify_thread,  \* "none" | "Listening" | "Stopped"
    cargo_thread,   \* "none" | "Idle" | "Debouncing" | "Draining" | "Starting" | "Running" | "Stopped"
    shutdown,       \* position of the shutdown closure
    \* main.rs watcher thread
    watcher_thread, \* "off" | "setup" | "listening" | "building"
    mrx,            \* channel of DebouncedEvent
    mtx,            \* the backend still holds the Sender of that channel
    \* server
    bound,          \* the listener is bound
    resp,           \* the last response
    \* history
    hist            \* what the properties observe (see HistInit)

vars == <<driver, packages, root, missing, mainPc, index, inFlight, started,
          docs, log,
          watched, unwatched, emitted, errors, wState, rx, run_rx,
          notify_thread, cargo_thread, shutdown, watcher_thread, mrx,
          mtx, bound, resp, hist>>

confVars == <<driver, packages, root, missing>>
mainVars == <<mainPc, index>>
coordVars == <<wState, rx, run_rx, notify_thread, cargo_thread, shutdown>>
inlineVars == <<watcher_thread, mrx, mtx>>
serverVars == <<bound, resp>>
fsVars == <<emitted, errors>>

\* ------------------------------------------------------------- index
Dash == "-"
Underscore == "_"

\* Replace that stops after the first dash (replacen with count 1).
ReplaceFirst(s) ==
    [i \in 1..Len(s) |->
        IF s[i] = Dash /\ (\A j \in 1..(i - 1) : s[j] # Dash) THEN Underscore ELSE s[i]]

\* str::replace('-', "_")
Replace(s) == [i \in 1..Len(s) |-> IF s[i] = Dash THEN Underscore ELSE s[i]]

IndexHtml == <<"/", "i", "n", "d", "e", "x", ".", "h", "t", "m", "l">>

\* format!("{}/index.html", package.replace('-', "_"))
Index(package) == Replace(package) \o IndexHtml

NoResp == [kind |-> "none"]

HistInit ==
    [ startupBuilds |-> 0,      \* run_cargo calls of main() itself
      startupResult |-> "none", \* "none" | "ok" | "err"
      excluded |-> FALSE,       \* a trigger or rebuild came from an event under target_directory
      sent |-> 0,               \* CargoMsg::Run sent by the notify thread
      consumed |-> 0,           \* CargoMsg::Run taken off run_rx by the cargo thread
      batch |-> 0,              \* CargoMsg::Run taken for the pending rebuild
      cycles |-> 0,             \* times the cargo thread received Run in its blocking recv
      evStarted |-> 0,          \* rebuilds started by a watch driver
      failures |-> 0,           \* event-triggered rebuilds that failed
      completed |-> 0,          \* `cargo doc` commands that have exited
      invokedInBuild |-> FALSE, \* the shutdown closure was called during a rebuild
      sentInBuild |-> FALSE,    \* CargoMsg::Shutdown was sent during a rebuild
      limit |-> -1,             \* once CargoMsg::Shutdown is sent: `started`, plus one
                                \* when the drain had already ended (-1 before)
      watchFailed |-> FALSE,    \* a watch registration failed
      req |-> << >>,            \* the last request: <<method, path>>
      served |-> 0,             \* triggers consumed when the last rebuild started
      late |-> FALSE,           \* a trigger was sent after a drain had finished
      dropped |-> 0,            \* windows the drain left on a Shutdown message
      prevDocs |-> -1 ]         \* the tree version the static response before the last read

SamplePackage == <<"m", "-", "c">>

\* The state before main() runs, whatever the metadata reports.
InitState ==
    /\ driver \in {"none", "inline", "coordinator"}
    /\ missing \in SUBSET Roots
    /\ mainPc = "start"
    /\ index = << >>
    /\ inFlight = 0
    /\ started = 0
    /\ docs = 0
    /\ log = [build |-> 0, watch |-> 0, notify |-> 0, channel |-> 0]
    /\ watched = {}
    /\ unwatched = {}
    /\ emitted = 0
    /\ errors = 0
    /\ wState = "init"
    /\ rx = << >>
    /\ run_rx = << >>
    /\ notify_thread = "none"
    /\ cargo_thread = "none"
    /\ shutdown = "idle"
    /\ watcher_thread = "off"
    /\ mrx = << >>
    /\ mtx = TRUE
    /\ bound = FALSE
    /\ resp = NoResp
    /\ hist = HistInit

Init ==
    /\ packages \in {<< >>, <<SamplePackage>>}
    /\ root \in 0..Len(packages)
    /\ InitState


\* ------------------------------------------------------------- Builder
\* run / run_cargo: `cmd.status()` blocks the calling thread until the
\* command exits; the command is in flight between BuildStart and BuildExit.
BuildStart ==
    /\ inFlight' = inFlight + 1
    /\ started' = started + 1
    /\ UNCHANGED docs

\* A successful `cargo doc` rewrites the tree; a failed one leaves it in place.
DocsWritten(ok) == docs' = IF ok THEN docs + 1 ELSE docs

BuildExit ==
    /\ inFlight' = inFlight - 1
    /\ UNCHANGED started

Logged(origin, n) == [log EXCEPT ![origin] = @ + n]

\* ------------------------------------------------------------- main()
\* main.rs:59-73: metadata, the package of the redirect, the index, and the
\* call of the startup rebuild.
MainMetadata ==
    /\ mainPc = "start"
    /\ IF packages = << >>
       THEN /\ mainPc' = "exit_err"
            /\ UNCHANGED <<index, inFlight, started, docs, hist>>
       ELSE /\ index' = Index(packages[1])
            /\ mainPc' = "startup"
            /\ BuildStart
            /\ hist' = [hist EXCEPT !.startupBuilds = @ + 1]
    /\ UNCHANGED <<confVars, log, watched, unwatched, fsVars, coordVars,
                   inlineVars, serverVars>>

\* AfterStartup without the `?`: the result of the startup rebuild is dropped.
AfterStartupIgnore(ok) == "watch"

\* Where main() goes when the startup rebuild returns: `run_cargo(..)?`.
AfterStartup(ok) == IF ok THEN "watch" ELSE "exit_err"

\* main.rs:73-76: the startup rebuild exits.
StartupDone(ok) ==
    /\ mainPc = "startup"
    /\ BuildExit
    /\ DocsWritten(ok)
    /\ mainPc' = AfterStartup(ok)
    /\ hist' = [hist EXCEPT !.startupResult = IF ok THEN "ok" ELSE "err",
                            !.completed = @ + 1]
    /\ UNCHANGED <<confVars, index, log, watched, unwatched, fsVars,
                   coordVars, inlineVars, serverVars>>

\* main.rs:85: --do-not-watch.
MainNoWatch ==
    /\ mainPc = "watch"
    /\ driver = "none"
    /\ mainPc' = "bind"
    /\ UNCHANGED <<confVars, index, inFlight, started, docs, log, watched,
                   unwatched, fsVars, coordVars, inlineVars, serverVars, hist>>

\* main.rs:86: the watcher thread is spawned.
MainSpawnWatcher ==
    /\ mainPc = "watch"
    /\ driver = "inline"
    /\ mainPc' = "bind"
    /\ watcher_thread' = "setup"
    /\ UNCHANGED <<confVars, index, inFlight, started, docs, log, watched,
                   unwatched, fsVars, coordVars, mrx, mtx, serverVars, hist>>

\* main.rs:133-140: the listener is bound and the server runs.
MainBind ==
    /\ mainPc = "bind"
    /\ mainPc' = "serving"
    /\ bound' = TRUE
    /\ UNCHANGED <<confVars, index, inFlight, started, docs, log, watched,
                   unwatched, fsVars, coordVars, inlineVars, resp, hist>>

\* ------------------------------------------------------------- server
Methods == {"GET", "POST"}
RootPath == <<"/">>
ReqPaths == {RootPath, <<"/", "a">>, <<"/", "/">>}

\* RoutesFuture::poll, Root arm: 303 See Other with Location: index.
Redirect(location) == [kind |-> "redirect", status |-> 303, location |-> location]

\* RoutesFuture::poll, Docs arm: the request goes to hyper_staticfile.
\* The file is resolved under doc_dir when the request is served.
Static(method, path) ==
    [kind |-> "static", method |-> method, path |-> path, docs |-> docs]

\* DocService::call
Route(method, path) ==
    IF path = RootPath THEN Redirect(index) ELSE Static(method, path)

\* Call on a server that answers only while no `cargo doc` is running.
CallWhenIdle(method, path) ==
    /\ mainPc = "serving"
    /\ inFlight = 0
    /\ resp' = Route(method, path)
    /\ hist' = [hist EXCEPT !.req = <<method, path>>,
                            !.prevDocs = IF resp.kind = "static" THEN resp.docs ELSE @]
    /\ UNCHANGED <<confVars, mainVars, inFlight, started, docs, log, watched,
                   unwatched, fsVars, coordVars, inlineVars, bound>>

\* main.rs:191-198: a request is routed and answered.
Call(method, path) ==
    /\ mainPc = "serving"
    /\ resp' = Route(method, path)
    /\ hist' = [hist EXCEPT !.req = <<method, path>>,
                            !.prevDocs = IF resp.kind = "static" THEN resp.docs ELSE @]
    /\ UNCHANGED <<confVars, mainVars, inFlight, started, docs, log, watched,
                   unwatched, fsVars, coordVars, inlineVars, bound>>

\* ------------------------------------------------------------- watcher backend
\* The backend reports a change of `path` when a watched root holds it and no
\* unwatched subtree does.
Covered(path) ==
    /\ \E r \in watched : StartsWith(path, r)
    /\ ~ \E u \in unwatched : StartsWith(path, u)

\* ------------------------------------------------------------- main.rs watcher thread
InlineKinds == Kinds \cup {"Chmod"}

\* main.rs:91-98: a path that cannot be watched is logged and skipped.
WatchedBestEffort == {r \in Roots : r \notin missing}

\* main.rs:87-98: the thread creates the watcher and registers the paths.
WatcherSetup ==
    /\ watcher_thread = "setup"
    /\ watched' = WatchedBestEffort
    /\ log' = Logged("watch", Cardinality(Roots \ WatchedBestEffort))
    /\ hist' = [hist EXCEPT !.watchFailed = (Roots \ WatchedBestEffort # {})]
    /\ watcher_thread' = "listening"
    /\ UNCHANGED <<confVars, mainVars, inFlight, started, docs, unwatched, fsVars,
                   coordVars, mrx, mtx, serverVars>>

\* notify's debounced backend sends an event on the channel of main.rs:88-89.
DebouncedEvent(kind, path) ==
    /\ watcher_thread \in {"listening", "building"}
    /\ mtx
    /\ emitted + errors < MaxEvents
    /\ Covered(path)
    /\ emitted' = emitted + 1
    /\ mrx' = Append(mrx, [kind |-> kind, path |-> path])
    /\ UNCHANGED <<confVars, mainVars, inFlight, started, docs, log, watched,
                   unwatched, errors, coordVars, watcher_thread, mtx, serverVars,
                   hist>>

\* notify's debounced backend sends DebouncedEvent::Error.
DebouncedError ==
    /\ watcher_thread \in {"listening", "building"}
    /\ mtx
    /\ emitted + errors < MaxEvents
    /\ errors' = errors + 1
    /\ mrx' = Append(mrx, [kind |-> "Error", path |-> << >>])
    /\ UNCHANGED <<confVars, mainVars, inFlight, started, docs, log, watched,
                   unwatched, emitted, coordVars, watcher_thread, mtx, serverVars,
                   hist>>

\* The backend's event thread ends and drops the Sender it was given at
\* main.rs:89; what is queued stays receivable.
BackendGone ==
    /\ watcher_thread \in {"listening", "building"}
    /\ mtx
    /\ mtx' = FALSE
    /\ UNCHANGED <<confVars, mainVars, inFlight, started, docs, log, watched,
                   unwatched, fsVars, coordVars, watcher_thread, mrx, serverVars,
                   hist>>

\* main.rs:102-124: whether the event makes the thread call run_cargo.
Rebuilds(ev) ==
    \/ /\ ev.kind \in {"Create", "Write", "Remove"}
       /\ ~ StartsWith(ev.path, target_directory)
    \/ ev.kind = "Rename"

\* main.rs:99-128: one turn of the loop, up to the call of run_cargo.
WatcherRecv ==
    /\ watcher_thread = "listening"
    /\ mrx # << >>
    /\ mrx' = Tail(mrx)
    /\ LET ev == Head(mrx) IN
       IF Rebuilds(ev)
       THEN /\ watcher_thread' = "building"
            /\ BuildStart
            /\ hist' = [hist EXCEPT
                 !.evStarted = @ + 1,
                 !.excluded = @ \/ StartsWith(ev.path, target_directory)]
            /\ UNCHANGED log
       ELSE /\ log' = IF ev.kind = "Error" THEN Logged("notify", 1) ELSE log
            /\ UNCHANGED <<watcher_thread, inFlight, started, docs, hist>>
    /\ UNCHANGED <<confVars, mainVars, watched, unwatched, fsVars, coordVars,
                   mtx, serverVars>>

\* main.rs:126: recv() on the empty channel whose Sender is gone returns
\* Err(RecvError); the arm logs it and the loop takes its next turn.
WatcherRecvErr ==
    /\ watcher_thread = "listening"
    /\ mrx = << >>
    /\ ~ mtx
    /\ log["channel"] < MaxClosedRecvs
    /\ log' = Logged("channel", 1)
    /\ UNCHANGED <<confVars, mainVars, inFlight, started, docs, watched,
                   unwatched, fsVars, coordVars, inlineVars, serverVars, hist>>

\* main.rs:109-123: run_cargo returns; a failure is logged.
WatcherRunDone(ok) ==
    /\ watcher_thread = "building"
    /\ BuildExit
    /\ DocsWritten(ok)
    /\ watcher_thread' = "listening"
    /\ log' = IF ok THEN log ELSE Logged("build", 1)
    /\ hist' = [hist EXCEPT !.completed = @ + 1,
                            !.failures = IF ok THEN @ ELSE @ + 1]
    /\ UNCHANGED <<confVars, mainVars, watched, unwatched, fsVars, coordVars,
                   mrx, mtx, serverVars>>

\* ------------------------------------------------------------- cargo_doc::watch
\* The caller of cargo_doc::watch is not among the sources: the process calls
\* it where main.rs starts its own watcher, after the startup rebuild.
UsesCoordinator == driver = "coordinator"

\* cargo_doc.rs:62-81: every registration is followed by `?`.
WatchOk ==
    /\ workspace_root \notin missing
    /\ \A extra \in watch_extra : extra \notin missing
    /\ \E r \in Roots : StartsWith(target_directory, r)

\* What the caller does with Err(..) from watch is not in the sources either.
AfterWatchErr == {"bind", "exit_err"}

\* cargo_doc.rs:51-135: the watcher is set up and both threads are spawned,
\* or the first failing registration is returned.
Watch ==
    /\ mainPc = "watch"
    /\ UsesCoordinator
    /\ wState = "init"
    /\ IF WatchOk
       THEN /\ wState' = "armed"
            /\ watched' = Roots
            /\ unwatched' = {target_directory}
            /\ notify_thread' = "Listening"
            /\ cargo_thread' = "Idle"
            /\ mainPc' = "bind"
            /\ UNCHANGED hist
       ELSE /\ wState' = "failed"
            /\ mainPc' \in AfterWatchErr
            /\ hist' = [hist EXCEPT !.watchFailed = TRUE]
            /\ UNCHANGED <<watched, unwatched, notify_thread, cargo_thread>>
    /\ UNCHANGED <<confVars, index, inFlight, started, docs, log, fsVars, rx, run_rx,
                   shutdown, inlineVars, serverVars>>

Event(path) == [tag |-> "Event", ok |-> TRUE, path |-> path]
EventErr == [tag |-> "Event", ok |-> FALSE, path |-> << >>]
NotifyShutdown == [tag |-> "Shutdown", ok |-> TRUE, path |-> << >>]

\* The watcher lives in the notify thread (`let _watcher = watcher`).
WatcherAlive == wState = "armed" /\ notify_thread = "Listening"

\* cargo_doc.rs:56-61: the event handler sends what the watcher reports.
NotifyCallback(kind, path) ==
    /\ WatcherAlive
    /\ emitted + errors < MaxEvents
    /\ Covered(path)
    /\ emitted' = emitted + 1
    /\ rx' = Append(rx, Event(path))
    /\ UNCHANGED <<confVars, mainVars, inFlight, started, docs, log, watched,
                   unwatched, errors, wState, run_rx, notify_thread,
                   cargo_thread, shutdown, inlineVars, serverVars, hist>>

\* cargo_doc.rs:56-61: the watcher reports an error.
NotifyCallbackErr ==
    /\ WatcherAlive
    /\ emitted + errors < MaxEvents
    /\ errors' = errors + 1
    /\ rx' = Append(rx, EventErr)
    /\ UNCHANGED <<confVars, mainVars, inFlight, started, docs, log, watched,
                   unwatched, emitted, wState, run_rx, notify_thread,
                   cargo_thread, shutdown, inlineVars, serverVars, hist>>

\* NotifyRecv that forwards a trigger for an error item as well.
NotifyRecvForwardErr ==
    /\ notify_thread = "Listening"
    /\ rx # << >>
    /\ rx' = Tail(rx)
    /\ LET msg == Head(rx) IN
       CASE msg.tag = "Event" /\ msg.ok ->
              /\ run_rx' = Append(run_rx, "Run")
              /\ hist' = [hist EXCEPT
                   !.sent = @ + 1,
                   !.late = @ \/ cargo_thread \in {"Starting", "Running"},
                   !.excluded = @ \/ StartsWith(msg.path, target_directory)]
              /\ UNCHANGED <<notify_thread, log>>
         [] msg.tag = "Event" /\ ~ msg.ok ->
              /\ log' = Logged("notify", 1)
              /\ run_rx' = Append(run_rx, "Run")
              /\ hist' = [hist EXCEPT !.sent = @ + 1]
              /\ UNCHANGED notify_thread
         [] msg.tag = "Shutdown" ->
              /\ notify_thread' = "Stopped"
              /\ UNCHANGED <<run_rx, log, hist>>
    /\ UNCHANGED <<confVars, mainVars, inFlight, started, docs, watched, unwatched,
                   fsVars, wState, cargo_thread, shutdown, inlineVars, serverVars>>

\* NotifyRecv that keeps listening after the Shutdown message.
NotifyRecvNoBreak ==
    /\ notify_thread = "Listening"
    /\ rx # << >>
    /\ rx' = Tail(rx)
    /\ LET msg == Head(rx) IN
       CASE msg.tag = "Event" /\ msg.ok ->
              /\ run_rx' = Append(run_rx, "Run")
              /\ hist' = [hist EXCEPT
                   !.sent = @ + 1,
                   !.late = @ \/ cargo_thread \in {"Starting", "Running"},
                   !.excluded = @ \/ StartsWith(msg.path, target_directory)]
              /\ UNCHANGED <<notify_thread, log>>
         [] msg.tag = "Event" /\ ~ msg.ok ->
              /\ log' = Logged("notify", 1)
              /\ UNCHANGED <<run_rx, notify_thread, hist>>
         [] msg.tag = "Shutdown" ->
              /\ UNCHANGED <<run_rx, notify_thread, log, hist>>
    /\ UNCHANGED <<confVars, mainVars, inFlight, started, docs, watched, unwatched,
                   fsVars, wState, cargo_thread, shutdown, inlineVars, serverVars>>

\* cargo_doc.rs:89-101: one turn of the notify thread's loop.
NotifyRecv ==
    /\ notify_thread = "Listening"
    /\ rx # << >>
    /\ rx' = Tail(rx)
    /\ LET msg == Head(rx) IN
       CASE msg.tag = "Event" /\ msg.ok ->
              /\ run_rx' = Append(run_rx, "Run")
              /\ hist' = [hist EXCEPT
                   !.sent = @ + 1,
                   !.late = @ \/ cargo_thread \in {"Starting", "Running"},
                   !.excluded = @ \/ StartsWith(msg.path, target_directory)]
              /\ UNCHANGED <<notify_thread, log>>
         [] msg.tag = "Event" /\ ~ msg.ok ->
              /\ log' = Logged("notify", 1)
              /\ UNCHANGED <<run_rx, notify_thread, hist>>
         [] msg.tag = "Shutdown" ->
              /\ notify_thread' = "Stopped"
              /\ UNCHANGED <<run_rx, log, hist>>
    /\ UNCHANGED <<confVars, mainVars, inFlight, started, docs, watched, unwatched,
                   fsVars, wState, cargo_thread, shutdown, inlineVars, serverVars>>

\* cargo_doc.rs:108-111,123: the blocking recv of the cargo thread.
CargoRecv ==
    /\ cargo_thread = "Idle"
    /\ run_rx # << >>
    /\ run_rx' = Tail(run_rx)
    /\ IF Head(run_rx) = "Run"
       THEN /\ cargo_thread' = "Debouncing"
            /\ hist' = [hist EXCEPT !.consumed = @ + 1, !.cycles = @ + 1,
                                    !.batch = 1]
       ELSE /\ cargo_thread' = "Stopped"
            /\ UNCHANGED hist
    /\ UNCHANGED <<confVars, mainVars, inFlight, started, docs, log, watched,
                   unwatched, fsVars, wState, rx, notify_thread, shutdown,
                   inlineVars, serverVars>>

\* cargo_doc.rs:111: thread::sleep returns.
CargoWake ==
    /\ cargo_thread = "Debouncing"
    /\ cargo_thread' = "Draining"
    /\ UNCHANGED <<confVars, mainVars, inFlight, started, docs, log, watched,
                   unwatched, fsVars, wState, rx, run_rx, notify_thread,
                   shutdown, inlineVars, serverVars, hist>>

\* CargoDrain without the drain: the rebuild follows the sleep at once.
CargoDrainNone ==
    /\ cargo_thread = "Draining"
    /\ cargo_thread' = "Starting"
    /\ UNCHANGED <<confVars, mainVars, inFlight, started, docs, log, watched,
                   unwatched, fsVars, wState, rx, run_rx, notify_thread,
                   shutdown, inlineVars, serverVars, hist>>

\* CargoDrain that drains Shutdown like any other message.
CargoDrainIgnoreShutdown ==
    /\ cargo_thread = "Draining"
    /\ IF run_rx = << >>
       THEN /\ cargo_thread' = "Starting"
            /\ UNCHANGED <<run_rx, hist>>
       ELSE /\ run_rx' = Tail(run_rx)
            /\ hist' = IF Head(run_rx) = "Run"
                       THEN [hist EXCEPT !.consumed = @ + 1, !.batch = @ + 1]
                       ELSE hist
            /\ UNCHANGED cargo_thread
    /\ UNCHANGED <<confVars, mainVars, inFlight, started, docs, log, watched,
                   unwatched, fsVars, wState, rx, notify_thread, shutdown,
                   inlineVars, serverVars>>

\* cargo_doc.rs:113-117: one try_recv of the drain; Err(Empty) ends the loop.
CargoDrain ==
    /\ cargo_thread = "Draining"
    /\ IF run_rx = << >>
       THEN /\ cargo_thread' = "Starting"
            /\ UNCHANGED <<run_rx, hist>>
       ELSE /\ run_rx' = Tail(run_rx)
            /\ IF Head(run_rx) = "Shutdown"
               THEN /\ cargo_thread' = "Stopped"
                    /\ hist' = [hist EXCEPT !.dropped = @ + 1]
               ELSE /\ hist' = [hist EXCEPT !.consumed = @ + 1, !.batch = @ + 1]
                    /\ UNCHANGED cargo_thread
    /\ UNCHANGED <<confVars, mainVars, inFlight, started, docs, log, watched,
                   unwatched, fsVars, wState, rx, notify_thread, shutdown,
                   inlineVars, serverVars>>

\* CargoRun that spawns `cargo doc` and does not wait for it.
CargoRunSpawn ==
    /\ cargo_thread = "Starting"
    /\ cargo_thread' = "Idle"
    /\ BuildStart
    /\ hist' = [hist EXCEPT !.evStarted = @ + 1]
    /\ UNCHANGED <<confVars, mainVars, log, watched, unwatched, fsVars, wState,
                   rx, run_rx, notify_thread, shutdown, inlineVars, serverVars>>

\* cargo_doc.rs:119: `run` is called and spawns `cargo doc`.
CargoRun ==
    /\ cargo_thread = "Starting"
    /\ cargo_thread' = "Running"
    /\ BuildStart
    /\ hist' = [hist EXCEPT !.evStarted = @ + 1, !.served = hist.consumed]
    /\ UNCHANGED <<confVars, mainVars, log, watched, unwatched, fsVars, wState,
                   rx, run_rx, notify_thread, shutdown, inlineVars, serverVars>>

\* CargoRunDone that empties the trigger channel when the rebuild returns.
CargoRunDoneSwallow(ok) ==
    /\ cargo_thread = "Running"
    /\ BuildExit
    /\ DocsWritten(ok)
    /\ cargo_thread' = "Idle"
    /\ run_rx' = << >>
    /\ log' = IF ok THEN log ELSE Logged("build", 1)
    /\ hist' = [hist EXCEPT !.completed = @ + 1,
                            !.failures = IF ok THEN @ ELSE @ + 1]
    /\ UNCHANGED <<confVars, mainVars, watched, unwatched, fsVars, wState, rx,
                   notify_thread, shutdown, inlineVars, serverVars>>

\* CargoRunDone that leaves the loop when the rebuild failed.
CargoRunDoneFatal(ok) ==
    /\ cargo_thread = "Running"
    /\ BuildExit
    /\ DocsWritten(ok)
    /\ cargo_thread' = IF ok THEN "Idle" ELSE "Stopped"
    /\ log' = IF ok THEN log ELSE Logged("build", 1)
    /\ hist' = [hist EXCEPT !.completed = @ + 1,
                            !.failures = IF ok THEN @ ELSE @ + 1]
    /\ UNCHANGED <<confVars, mainVars, watched, unwatched, fsVars, wState, rx,
                   run_rx, notify_thread, shutdown, inlineVars, serverVars>>

\* cargo_doc.rs:119-121: `run` returns; a failure is logged.
CargoRunDone(ok) ==
    /\ cargo_thread = "Running"
    /\ BuildExit
    /\ DocsWritten(ok)
    /\ cargo_thread' = "Idle"
    /\ log' = IF ok THEN log ELSE Logged("build", 1)
    /\ hist' = [hist EXCEPT !.completed = @ + 1,
                            !.failures = IF ok THEN @ ELSE @ + 1]
    /\ UNCHANGED <<confVars, mainVars, watched, unwatched, fsVars, wState, rx,
                   run_rx, notify_thread, shutdown, inlineVars, serverVars>>

\* ------------------------------------------------------------- shutdown closure
\* The closure returned by watch is called (FnOnce: at most once).
ShutdownInvoke ==
    /\ wState = "armed"
    /\ shutdown = "idle"
    /\ shutdown' = "send_notify"
    /\ hist' = [hist EXCEPT !.invokedInBuild = (cargo_thread = "Running")]
    /\ UNCHANGED <<confVars, mainVars, inFlight, started, docs, log, watched,
                   unwatched, fsVars, wState, rx, run_rx, notify_thread,
                   cargo_thread, inlineVars, serverVars>>

\* cargo_doc.rs:130
ShutdownSendNotify ==
    /\ shutdown = "send_notify"
    /\ rx' = Append(rx, NotifyShutdown)
    /\ shutdown' = "send_cargo"
    /\ UNCHANGED <<confVars, mainVars, inFlight, started, docs, log, watched,
                   unwatched, fsVars, wState, run_rx, notify_thread,
                   cargo_thread, inlineVars, serverVars, hist>>

\* ShutdownSendCargo that sends nothing to the cargo thread.
ShutdownSendCargoSkip ==
    /\ shutdown = "send_cargo"
    /\ shutdown' = "join_notify"
    /\ hist' = [hist EXCEPT
         !.sentInBuild = (cargo_thread = "Running"),
         !.limit = started + (IF cargo_thread = "Starting" THEN 1 ELSE 0)]
    /\ UNCHANGED <<confVars, mainVars, inFlight, started, docs, log, watched,
                   unwatched, fsVars, wState, rx, run_rx, notify_thread,
                   cargo_thread, inlineVars, serverVars>>

\* cargo_doc.rs:131
ShutdownSendCargo ==
    /\ shutdown = "send_cargo"
    /\ run_rx' = Append(run_rx, "Shutdown")
    /\ shutdown' = "join_notify"
    /\ hist' = [hist EXCEPT
         !.sentInBuild = (cargo_thread = "Running"),
         !.limit = started + (IF cargo_thread = "Starting" THEN 1 ELSE 0)]
    /\ UNCHANGED <<confVars, mainVars, inFlight, started, docs, log, watched,
                   unwatched, fsVars, wState, rx, notify_thread, cargo_thread,
                   inlineVars, serverVars>>

\* cargo_doc.rs:132
ShutdownJoinNotify ==
    /\ shutdown = "join_notify"
    /\ notify_thread = "Stopped"
    /\ shutdown' = "join_cargo"
    /\ UNCHANGED <<confVars, mainVars, inFlight, started, docs, log, watched,
                   unwatched, fsVars, wState, rx, run_rx, notify_thread,
                   cargo_thread, inlineVars, serverVars, hist>>

\* ShutdownJoinCargo that does not wait for the cargo thread.
ShutdownJoinCargoNoWait ==
    /\ shutdown = "join_cargo"
    /\ shutdown' = "done"
    /\ UNCHANGED <<confVars, mainVars, inFlight, started, docs, log, watched,
                   unwatched, fsVars, wState, rx, run_rx, notify_thread,
                   cargo_thread, inlineVars, serverVars, hist>>

\* cargo_doc.rs:133
ShutdownJoinCargo ==
    /\ shutdown = "join_cargo"
    /\ cargo_thread = "Stopped"
    /\ shutdown' = "done"
    /\ UNCHANGED <<confVars, mainVars, inFlight, started, docs, log, watched,
                   unwatched, fsVars, wState, rx, run_rx, notify_thread,
                   cargo_thread, inlineVars, serverVars, hist>>

\* ------------------------------------------------------------- specification
MainStep ==
    \/ MainMetadata
    \/ \E ok \in BOOLEAN : StartupDone(ok)
    \/ MainNoWatch
    \/ MainSpawnWatcher
    \/ Watch
    \/ MainBind

ServerStep == \E method \in Methods, path \in ReqPaths : Call(method, path)

InlineStep ==
    \/ WatcherSetup
    \/ \E kind \in InlineKinds, path \in Paths : DebouncedEvent(kind, path)
    \/ DebouncedError
    \/ BackendGone
    \/ WatcherRecv
    \/ WatcherRecvErr
    \/ \E ok \in BOOLEAN : WatcherRunDone(ok)

BackendStep ==
    \/ \E kind \in Kinds, path \in Paths : NotifyCallback(kind, path)
    \/ NotifyCallbackErr

CargoStep ==
    \/ CargoRecv
    \/ CargoWake
    \/ CargoDrain
    \/ CargoRun

ShutdownStep ==
    \/ ShutdownSendNotify
    \/ ShutdownSendCargo
    \/ ShutdownJoinNotify
    \/ ShutdownJoinCargo

Next ==
    \/ MainStep
    \/ ServerStep
    \/ InlineStep
    \/ BackendStep
    \/ NotifyRecv
    \/ CargoStep
    \/ \E ok \in BOOLEAN : CargoRunDone(ok)
    \/ ShutdownInvoke
    \/ ShutdownStep

Spec == Init /\ [][Next]_vars

\* The coordinator alone, under the scheduling the operating system gives its
\* threads: a thread that can take a step eventually takes it, and a running
\* `cargo doc` eventually exits.
FairInit == Init /\ UsesCoordinator /\ packages # << >> /\ root = 1

FairNext ==
    \/ MainMetadata
    \/ \E ok \in BOOLEAN : StartupDone(ok)
    \/ Watch
    \/ MainBind
    \/ BackendStep
    \/ NotifyRecv
    \/ CargoStep
    \/ \E ok \in BOOLEAN : CargoRunDone(ok)
    \/ ShutdownInvoke
    \/ ShutdownStep

FairSpec ==
    /\ FairInit
    /\ [][FairNext]_vars
    /\ WF_vars(NotifyRecv)
    /\ WF_vars(CargoStep)
    /\ WF_vars(\E ok \in BOOLEAN : CargoRunDone(ok))
    /\ WF_vars(ShutdownStep)

\* The coordinator under the same scheduling when the closure returned by
\* watch is never called.
WatchingNext ==
    \/ MainMetadata
    \/ \E ok \in BOOLEAN : StartupDone(ok)
    \/ Watch
    \/ MainBind
    \/ BackendStep
    \/ NotifyRecv
    \/ CargoStep
    \/ \E ok \in BOOLEAN : CargoRunDone(ok)

WatchingSpec ==
    /\ FairInit
    /\ [][WatchingNext]_vars
    /\ WF_vars(NotifyRecv)
    /\ WF_vars(CargoStep)
    /\ WF_vars(\E ok \in BOOLEAN : CargoRunDone(ok))

\* The router on every list of up to two package names of up to MaxNameLen
\* characters, with and without a designated root package.
Chars == {"a", Dash, Underscore}
Names == UNION {[1..n -> Chars] : n \in 1..MaxNameLen}

NameLists == {<< >>} \cup {<<n>> : n \in Names} \cup {<<n, m>> : n, m \in Names}

RouteInit ==
    /\ packages \in NameLists
    /\ root \in 0..Len(packages)
    /\ InitState
    /\ driver = "none"
    /\ missing = {}

RouteNext ==
    \/ MainMetadata
    \/ \E ok \in BOOLEAN : StartupDone(ok)
    \/ MainNoWatch
    \/ MainBind
    \/ ServerStep

SpecRoute == RouteInit /\ [][RouteNext]_vars

\* ------------------------------------------------------------- properties
\* The cargo thread has taken a trigger and not yet called or dropped the rebuild.
Pending == IF cargo_thread \in {"Debouncing", "Draining", "Starting"} THEN 1 ELSE 0

\* CargoMsg::Shutdown has been sent on the trigger channel.
ShutdownSent == shutdown \in {"join_notify", "join_cargo", "done"}

\* C1: at most one `cargo doc` is in flight in every reachable state, and an
\* event-triggered rebuild has started only after the startup rebuild exited.
AtMostOneRebuild ==
    /\ inFlight <= 1
    /\ hist.evStarted > 0 => hist.startupResult = "ok" /\ mainPc # "startup"

\* A rebuild in flight with a further trigger queued and shutdown under way.
AtMostOneRebuildWitness ==
    /\ inFlight = 1
    /\ cargo_thread = "Running"
    /\ "Run" \in {run_rx[i] : i \in 1..Len(run_rx)}
    /\ shutdown # "idle"

\* C2: without shutdown every trigger received in the blocking recv opens one
\* window that yields one rebuild, and when the drain of a window ends every
\* trigger forwarded so far has been taken into a window: N triggers queued
\* before the drain ends give one rebuild.
Coalescing ==
    /\ [](UsesCoordinator /\ shutdown = "idle"
            => hist.cycles = hist.evStarted + Pending)
    /\ [][cargo_thread = "Draining" /\ cargo_thread' = "Starting"
            => hist.consumed = hist.sent /\ hist.batch >= 1]_vars

\* One rebuild is in flight for a window that took two or more triggers.
CoalescingWitness ==
    /\ cargo_thread = "Running"
    /\ hist.batch >= 2
    /\ hist.evStarted = 1
    /\ shutdown = "idle"

\* C3: no trigger is forwarded and no rebuild is started for an event whose
\* path lies under target_directory.
Exclusion == ~ hist.excluded

\* C4 as stated: from the moment the shutdown closure is called no `cargo doc`
\* starts.
NoRebuildAfterInvoke == [][shutdown # "idle" => started' = started]_vars

\* C4 as amended: once CargoMsg::Shutdown has been sent no `cargo doc` starts,
\* except the one the cargo thread had already left its drain for.
NoRebuildAfterShutdownSent == ShutdownSent => started <= hist.limit

\* Shutdown has been sent and served while messages stay queued on both channels.
NoRebuildAfterShutdownSentWitness ==
    /\ shutdown = "done"
    /\ rx # << >>
    /\ "Run" \in {run_rx[i] : i \in 1..Len(run_rx)}

\* C5: under fair scheduling, once the shutdown closure is called both threads
\* stop, both joins complete and the call returns.
ShutdownTerminates ==
    (shutdown # "idle")
        ~> (shutdown = "done" /\ notify_thread = "Stopped" /\ cargo_thread = "Stopped")

\* The call returned although it was made during a rebuild and a trigger was
\* still queued behind the Shutdown message.
ShutdownTerminatesWitness ==
    /\ shutdown = "done"
    /\ notify_thread = "Stopped"
    /\ cargo_thread = "Stopped"
    /\ hist.invokedInBuild
    /\ run_rx # << >>

\* C6 as stated: when the shutdown closure is called during a rebuild, that
\* rebuild exits before the call returns and no `cargo doc` starts afterwards.
ShutdownInBuildInvoked ==
    /\ [](hist.invokedInBuild /\ shutdown = "done"
            => inFlight = 0 /\ hist.completed = started)
    /\ [][hist.invokedInBuild => started' = started]_vars

\* C6 as amended: when CargoMsg::Shutdown is sent during a rebuild, that
\* rebuild exits before the call returns and no `cargo doc` starts afterwards.
ShutdownInBuildSent ==
    /\ hist.sentInBuild => started = hist.limit
    /\ hist.sentInBuild /\ shutdown = "done"
         => inFlight = 0 /\ hist.completed = started

\* Shutdown was sent during a rebuild, a trigger queued during that rebuild
\* opened a window, and the window was dropped without a rebuild.
ShutdownInBuildSentWitness ==
    /\ hist.sentInBuild
    /\ shutdown = "done"
    /\ hist.cycles = 2
    /\ hist.evStarted = 1

\* The listener is bound or about to be; a watch driver has been started.
Serving == bound \/ resp # NoResp \/ mainPc \in {"bind", "serving"}
Watching == watcher_thread # "off" \/ wState # "init"

\* C7: the watcher is started, the listener bound and a request served only
\* after the one startup rebuild has succeeded; when it fails main() exits and
\* none of them happens.
StartupOrdering ==
    /\ hist.startupBuilds <= 1
    /\ started = hist.startupBuilds + hist.evStarted
    /\ Serving \/ Watching \/ mainPc = "watch"
         => hist.startupResult = "ok" /\ hist.startupBuilds = 1
    /\ hist.startupResult = "err"
         => mainPc = "exit_err" /\ ~ Serving /\ ~ Watching /\ started = 1

\* A request has been served while the watcher thread is listening.
StartupOrderingWitness ==
    /\ resp.kind = "static"
    /\ watcher_thread = "listening"
    /\ hist.startupBuilds = 1

\* C8: when an event-triggered rebuild fails the error is logged, no rebuild
\* is started by the failure, the loop is back at its recv, and rebuilds never
\* outnumber the events delivered.
RebuildFailureRecoverable ==
    /\ [](log.build = hist.failures)
    /\ [](hist.evStarted <= emitted)
    /\ [][hist'.failures = hist.failures + 1
            => /\ log'.build = log.build + 1
               /\ started' = started
               /\ inFlight' = 0
               /\ rx' = rx /\ run_rx' = run_rx /\ mrx' = mrx
               /\ UsesCoordinator => cargo_thread' = "Idle"
               /\ driver = "inline" => watcher_thread' = "listening"]_vars

\* A rebuild is in flight after an earlier one failed.
RebuildFailureRecoverableWitness ==
    /\ hist.failures >= 1
    /\ inFlight = 1
    /\ cargo_thread = "Running"

\* C9: when a configured path cannot be watched, the remaining paths are still
\* watched and the loops are started.
BestEffortWatch ==
    /\ watcher_thread \in {"listening", "building"} => watched = WatchedBestEffort
    /\ wState # "init"
         => /\ wState = "armed"
            /\ watched = WatchedBestEffort
            /\ notify_thread # "none"
            /\ cargo_thread # "none"

\* The redirect target the claim names for a package.
ExpectedTarget(package) ==
    <<"/">> \o [i \in 1..Len(package) |->
                  IF package[i] = "-" THEN "_" ELSE package[i]]
            \o <<"/", "i", "n", "d", "e", "x", ".", "h", "t", "m", "l">>

\* Exactly the requests for `/` are redirected; the others go to the static handler.
RootOnly ==
    resp.kind # "none"
        => /\ (resp.kind = "redirect") = (hist.req[2] = <<"/">>)
           /\ resp.kind = "static" => resp.path = hist.req[2]

\* C10 as stated: the Location of the redirect is `/<package>/index.html`, the
\* dashes of the package replaced by underscores.
RootRedirect ==
    /\ RootOnly
    /\ resp.kind = "redirect" => resp.location = ExpectedTarget(packages[1])

\* C10 as amended: the Location of the redirect is the relative reference
\* `<package>/index.html`, which is the claim's target without its leading `/`.
RootRedirectRelative ==
    /\ RootOnly
    /\ resp.kind = "redirect"
         => /\ resp.status = 303
            /\ <<"/">> \o resp.location = ExpectedTarget(packages[1])

\* A GET of `/` was redirected for a package name with two dashes.
RootRedirectRelativeWitness ==
    /\ resp.kind = "redirect"
    /\ hist.req = <<"GET", <<"/">> >>
    /\ Cardinality({i \in 1..Len(packages[1]) : packages[1][i] = "-"}) >= 2

\* The package the claim selects: the designated root, else the first.
SelectedPackage == IF root # 0 THEN packages[root] ELSE packages[1]

\* C11: the redirect is computed from the root package when one is designated
\* and from the first package otherwise; with no package main() fails before
\* any rebuild runs or the listener is bound.
PackageSelection ==
    /\ index # << >> => <<"/">> \o index = ExpectedTarget(SelectedPackage)
    /\ packages = << >> => started = 0 /\ ~ bound /\ mainPc \in {"start", "exit_err"}

\* C12: once serving has started every request can be answered in every state
\* of the rebuild loop, and a static response reads the tree as it is when the
\* request is served.
ServerNeverBlocks ==
    /\ [](mainPc = "serving"
            => \A method \in Methods, path \in ReqPaths : ENABLED Call(method, path))
    /\ [][ServerStep => (resp'.kind = "static" => resp'.docs = docs)]_vars

\* During a rebuild a static response read the tree of the rebuild that
\* completed after the response before it.
ServerNeverBlocksWitness ==
    /\ resp.kind = "static"
    /\ hist.prevDocs = 1
    /\ resp.docs = 2
    /\ cargo_thread = "Running"

\* C13: when the drain takes a Shutdown message the cargo thread stops at
\* once, the pending rebuild is not performed, and from then on no `cargo doc`
\* starts and no trigger is taken off the channel.
ShutdownWhileDraining ==
    /\ [][cargo_thread = "Draining" /\ run_rx # << >> /\ run_rx' = Tail(run_rx)
            => IF Head(run_rx) = "Shutdown"
               THEN cargo_thread' = "Stopped" /\ started' = started
                    /\ inFlight' = inFlight
               ELSE cargo_thread' = "Draining"]_vars
    /\ [][cargo_thread = "Stopped"
            => cargo_thread' = "Stopped" /\ started' = started
               /\ hist'.consumed = hist.consumed]_vars
    /\ [](cargo_thread = "Stopped" => hist.evStarted + hist.dropped = hist.cycles)

\* The drain found Shutdown: the window it had opened gave no rebuild and a
\* trigger queued behind the Shutdown stays on the channel.
ShutdownWhileDrainingWitness ==
    /\ cargo_thread = "Stopped"
    /\ hist.dropped = 1
    /\ hist.evStarted = 0
    /\ "Run" \in {run_rx[i] : i \in 1..Len(run_rx)}

\* C14: an error item on the watcher channel is logged, forwards no rebuild
\* trigger and leaves the forwarding loop listening; and once the loop has
\* received on the closed channel it has stopped, so it receives nothing again.
WatcherChannelErrors ==
    /\ [][notify_thread = "Listening" /\ rx # << >> /\ rx' = Tail(rx)
            /\ Head(rx) = EventErr
            => /\ log'["notify"] = log["notify"] + 1
               /\ run_rx' = run_rx
               /\ notify_thread' = "Listening"]_vars
    /\ [][watcher_thread = "listening" /\ mrx # << >> /\ mrx' = Tail(mrx)
            /\ Head(mrx).kind = "Error"
            => /\ log'["notify"] = log["notify"] + 1
               /\ started' = started
               /\ watcher_thread' = "listening"]_vars
    /\ [][log["channel"] >= 1 => log'["channel"] = log["channel"]]_vars

\* C15: when shutdown is never requested and every build terminates, every
\* trigger the notify thread sends is followed by the start of a rebuild that
\* began after the cargo thread took that trigger off the channel; a trigger
\* sent after the drain finished or during a rebuild is served by a later one.
NoLostChange ==
    \A k \in 1..MaxEvents : (hist.sent >= k) ~> (hist.served >= k)

\* A trigger sent after a drain had finished was served by a second rebuild.
NoLostChangeWitness ==
    /\ shutdown = "idle"
    /\ hist.late
    /\ hist.evStarted = 2
    /\ hist.served = hist.sent

\* C16: the rebuild loop has started at most as many builds as triggers were
\* sent, every build belongs to a cycle of its own that began with the receipt
\* of a trigger, and a step that takes a Shutdown message or an error item, or
\* in which a build exits, starts no build and opens no cycle.
NoSpuriousRebuild ==
    /\ [](UsesCoordinator
            => /\ hist.evStarted + Pending + hist.dropped = hist.cycles
               /\ hist.cycles <= hist.consumed
               /\ hist.consumed <= hist.sent
               /\ hist.sent <= emitted)
    /\ [][UsesCoordinator /\ rx # << >> /\ rx' = Tail(rx)
            /\ ~ (Head(rx).tag = "Event" /\ Head(rx).ok)
            => run_rx' = run_rx /\ started' = started
               /\ hist'.cycles = hist.cycles]_vars
    /\ [][UsesCoordinator /\ run_rx # << >> /\ run_rx' = Tail(run_rx)
            /\ Head(run_rx) = "Shutdown"
            => started' = started /\ hist'.cycles = hist.cycles]_vars
    /\ [][UsesCoordinator /\ inFlight' < inFlight
            => started' = started /\ hist'.cycles = hist.cycles
               /\ cargo_thread' \in {"none", "Idle"}]_vars

\* One change and one error item were delivered and taken, and the startup
\* rebuild and exactly one rebuild of the loop ran.
NoSpuriousRebuildWitness ==
    /\ UsesCoordinator
    /\ emitted = 1
    /\ log["notify"] = 1
    /\ hist.evStarted = 1
    /\ started = 2
    /\ inFlight = 0
    /\ cargo_thread = "Idle"
    /\ rx = << >>
    /\ run_rx = << >>

\* NotifyMsg::Shutdown was sent and is no longer on the event channel.
NotifyGotShutdown ==
    /\ shutdown \notin {"idle", "send_notify"}
    /\ \A i \in 1..Len(rx) : rx[i] # NotifyShutdown

\* CargoMsg::Shutdown was sent and is no longer on the trigger channel.
CargoGotShutdown ==
    /\ ShutdownSent
    /\ \A i \in 1..Len(run_rx) : run_rx[i] # "Shutdown"

\* C17: once the notify thread has received its Shutdown it sends no trigger
\* and takes nothing more off the event channel, and once the cargo thread has
\* received its Shutdown it takes nothing more off the trigger channel.
ForwardingStopsAtShutdown ==
    /\ [][NotifyGotShutdown
            => /\ hist'.sent = hist.sent
               /\ Len(rx') >= Len(rx)
               /\ \A i \in 1..Len(run_rx') : i > Len(run_rx) => run_rx'[i] # "Run"]_vars
    /\ [][CargoGotShutdown
            => hist'.consumed = hist.consumed /\ Len(run_rx') >= Len(run_rx)]_vars

\* Both threads have stopped; an event queued behind the notify thread's
\* Shutdown and a trigger queued behind the cargo thread's are still there.
ForwardingStopsAtShutdownWitness ==
    /\ notify_thread = "Stopped"
    /\ cargo_thread = "Stopped"
    /\ rx # << >>
    /\ rx[1].tag = "Event" /\ rx[1].ok
    /\ run_rx = <<"Run">>

====
